---- MODULE Spec2Model ----
(***************************************************************************)
(* Model of src/plugins.py: the pictool plug-in functions (display, dered, *)
(* mono, flip, transpose, rotate, vignette, blur, pixellate) acting on an  *)
(* image buffer, a list of rows of RGB pixels.                             *)
(*                                                                         *)
(* The buffer is modelled by value: a sequence of rows, each a sequence of *)
(* pixel records.  No plug-in ever stores one pixel object in two cells    *)
(* (flip and transpose permute the cells, blur allocates a fresh pixel per *)
(* cell), so a buffer that starts with one object per cell keeps one       *)
(* object per cell, and reassigning a cell is the same as copying values.  *)
(* Rows and columns are numbered from 0 as in the source; At and SetAt     *)
(* translate to the 1-based sequences of TLA+.                             *)
(*                                                                         *)
(* A call is one atomic step.  Its outcome is the value returned ("True",  *)
(* "None") or the name of the Python exception that ended it; the image    *)
(* after a call that raised is the image as the loops had left it at the   *)
(* raise.                                                                  *)
(***************************************************************************)
EXTENDS Integers, Sequences, FiniteSets

VARIABLES image, trail

vars == <<image, trail>>

(* ------------------------------ bounds --------------------------------- *)

MaxH == 3
MaxW == 4
MaxCells == 8
MaxSeq == 4
MaxMono == 2
MaxRagged == 6
MaxRadius == 2
MaxStep == 3

(* --------------------------- Python values ----------------------------- *)

\* A bool or an int argument.  bool is a subclass of int in Python: True
\* is the bool 1, False the bool 0, and an object is truthy when non-zero.
PyBool(b) == [isbool |-> TRUE, n |-> IF b THEN 1 ELSE 0]
PyInt(k) == [isbool |-> FALSE, n |-> k]
NoArg == PyInt(0)
Truthy(x) == x.n # 0
IsBool(x) == x.isbool

\* Body applied to value, the value being computed once (an operator
\* argument is otherwise computed again at each of its uses).
With(value, Body(_)) == CHOOSE out \in {Body(v) : v \in {value}} : TRUE

Max(a, b) == IF a >= b THEN a ELSE b
Min(a, b) == IF a <= b THEN a ELSE b

RGB(r, g, b, a) == [red |-> r, green |-> g, blue |-> b, alpha |-> a]

\* The outcome of a call: the buffer it leaves and how it ended.
Return(img, value) == [image |-> img, result |-> value]
Raise(img, exception) == [image |-> img, result |-> exception]

Exceptions == {"IndexError", "AssertionError", "ZeroDivisionError", "ValueError"}

At(img, row, col) == img[row + 1][col + 1]
SetAt(img, row, col, pixel) == [img EXCEPT ![row + 1][col + 1] = pixel]
RowLen(img, row) == Len(img[row + 1])

(* ----------------- IEEE-754 double arithmetic of mono ------------------ *)

\* A double x of mono's arithmetic is a pair <<a, d>> with
\*     x = a/10 + d * 2^-56 / 10      (a in tenths, d the rounding error).
\* The literals 0.3, 0.6, 0.1 and 0.4 are the doubles nearest to 3/10,
\* 6/10, 1/10 and 4/10; their errors in units of 2^-56/10 are:
Err03 == 0 - 8
Err06 == 0 - 16
Err01 == 4
Err04 == 16

RECURSIVE Pow2(_)
Pow2(k) == IF k = 0 THEN 1 ELSE 2 * Pow2(k - 1)

\* 2^n mod 20 for n >= 2 (period 4: 4, 8, 16, 12).
Pow2Mod20(n) == IF n % 4 = 2 THEN 4 ELSE IF n % 4 = 3 THEN 8 ELSE IF n % 4 = 0 THEN 16 ELSE 12

\* x >= 2^(k-4), for x = <<a, d>>.
AtLeastPow2(a, d, k) == 16 * a > 10 * Pow2(k) \/ (16 * a = 10 * Pow2(k) /\ d >= 0)

\* k such that 2^(k-4) <= x < 2^(k-3): the unit in the last place of x is
\* 2^k * 2^-56.
RECURSIVE Binade(_, _, _)
Binade(a, d, k) == IF k < 15 /\ AtLeastPow2(a, d, k + 1) THEN Binade(a, d, k + 1) ELSE k

\* Round the real number a/10 + d*2^-56/10 to the nearest double, ties to
\* even.  The value modulo twice the unit in the last place tells the
\* remainder and the parity of the last kept bit.
FRound(a, d) ==
    IF a = 0 /\ d = 0 THEN <<0, 0>>
    ELSE LET Rounded(k) ==
                 LET U == Pow2(k)
                     r2 == (U * ((a * Pow2Mod20(56 - k)) % 20) + d) % (20 * U)
                     rho == r2 % (10 * U)
                     odd == r2 >= 10 * U
                 IN  IF rho < 5 * U \/ (rho = 5 * U /\ ~odd)
                     THEN <<a, d - rho>>
                     ELSE <<a, d + 10 * U - rho>>
         IN  With(Binade(a, d, 0), Rounded)

\* literal * n, for the literal tenths/10 with error err and an int n >= 0.
FMul(tenths, err, n) == FRound(tenths * n, err * n)
FAdd(x, y) == FRound(x[1] + y[1], x[2] + y[2])
\* int(x) for x >= 0: truncation.
FInt(x) == (x[1] \div 10) - (IF x[1] % 10 = 0 /\ x[2] < 0 THEN 1 ELSE 0)

\* int(0.3 * pixel.red + 0.6 * pixel.green + 0.1 * pixel.blue)
Brightness(pixel) ==
    FInt(FAdd(FAdd(FMul(3, Err03, pixel.red), FMul(6, Err06, pixel.green)),
              FMul(1, Err01, pixel.blue)))

(* -------------------------------- mono --------------------------------- *)

\* The body of mono's inner loop for one pixel.
mono_pixel(pixel, sepia) ==
    LET Assign(brightness) ==
            LET grey == [pixel EXCEPT !.red = Min(brightness, 255),
                                      !.green = Min(brightness, 255),
                                      !.blue = Min(brightness, 255)]
            IN  IF Truthy(sepia)
                THEN [grey EXCEPT !.green = Min(FInt(FMul(6, Err06, brightness)), 255),
                                  !.blue = Min(FInt(FMul(4, Err04, brightness)), 255)]
                ELSE grey
    IN  With(Brightness(pixel), Assign)

mono(img, sepia) ==
    IF ~IsBool(sepia) THEN Raise(img, "AssertionError")
    ELSE Return([r \in 1..Len(img) |->
                    [c \in 1..Len(img[r]) |-> mono_pixel(img[r][c], sepia)]],
                "True")

(* -------------------------------- display ------------------------------ *)

\* display's second pass reads row[pos2] for pos2 < width in every row:
\* it raises at the first row shorter than the first one.  What it prints
\* is not part of the state; it ends with a bare return.
display(img) ==
    IF Len(img) = 0 THEN Raise(img, "IndexError")
    ELSE LET height == Len(img)
             width == Len(img[1])
         IN  IF \E pos1 \in 0..height - 1 : RowLen(img, pos1) < width
             THEN Raise(img, "IndexError")
             ELSE Return(img, "None")

(* -------------------------------- dered -------------------------------- *)

\* dered's loops from pixel number n on (row-major, row = n \div width).
RECURSIVE dered_loop(_, _, _, _)
dered_loop(img, height, width, n) ==
    IF n = height * width THEN Return(img, "True")
    ELSE LET row == n \div width
             col == n % width
         IN  IF col >= RowLen(img, row) THEN Raise(img, "IndexError")
             ELSE With(SetAt(img, row, col, [At(img, row, col) EXCEPT !.red = 0]),
                       LAMBDA next : dered_loop(next, height, width, n + 1))

dered(img) ==
    IF Len(img) = 0 THEN Raise(img, "IndexError")
    ELSE dered_loop(img, Len(img), Len(img[1]), 0)

(* -------------------------------- flip --------------------------------- *)

\* flip's loops from cell number n on: each step reads one cell of the
\* copy original_image and stores it in the live image.
RECURSIVE flip_loop(_, _, _, _, _, _)
flip_loop(img, original_image, vertical, height, width, n) ==
    IF n = height * width THEN Return(img, "True")
    ELSE LET row == n \div width
             col == n % width
             srcRow == IF Truthy(vertical) THEN height - 1 - row ELSE row
             srcCol == IF Truthy(vertical) THEN col ELSE width - 1 - col
         IN  IF srcCol >= RowLen(original_image, srcRow) \/ col >= RowLen(img, row)
             THEN Raise(img, "IndexError")
             ELSE With(SetAt(img, row, col, At(original_image, srcRow, srcCol)),
                       LAMBDA next : flip_loop(next, original_image, vertical, height,
                                               width, n + 1))

\* The same loops reading the live image instead of a copy.
flip_nocopy(img, vertical) ==
    LET RECURSIVE loop(_, _)
        loop(cur, n) ==
            IF n = Len(img) * Len(img[1]) THEN Return(cur, "True")
            ELSE LET row == n \div Len(img[1])
                     col == n % Len(img[1])
                     srcRow == IF Truthy(vertical) THEN Len(img) - 1 - row ELSE row
                     srcCol == IF Truthy(vertical) THEN col ELSE Len(img[1]) - 1 - col
                 IN  IF srcCol >= RowLen(cur, srcRow) \/ col >= RowLen(cur, row)
                     THEN Raise(cur, "IndexError")
                     ELSE With(SetAt(cur, row, col, At(cur, srcRow, srcCol)),
                               LAMBDA next : loop(next, n + 1))
    IN  IF Len(img) = 0 THEN Raise(img, "IndexError") ELSE loop(img, 0)

flip(img, vertical) ==
    IF Len(img) = 0 THEN Raise(img, "IndexError")
    ELSE flip_loop(img, img, vertical, Len(img), Len(img[1]), 0)

(* ------------------------------ transpose ------------------------------ *)

transpose(img) ==
    IF Len(img) = 0 THEN Raise(img, "IndexError")
    ELSE LET original_height == Len(img)
             original_width == Len(img[1])
         IN  IF \E row \in 0..original_height - 1 : RowLen(img, row) < original_width
             THEN Raise(img, "IndexError")
             ELSE LET transposed_image ==
                          [col \in 1..original_width |->
                              [row \in 1..original_height |-> img[row][col]]]
                  IN  Return([row \in 1..original_width |->
                                 [col \in 1..original_height |-> transposed_image[row][col]]],
                             "True")

(* -------------------------------- rotate ------------------------------- *)

\* Both directions transposing first.
rotate_sameorder(img, right) ==
    IF Len(img) = 0 THEN Raise(img, "IndexError")
    ELSE LET t == transpose(img)
         IN  IF t.result \in Exceptions THEN t
             ELSE LET f == flip(t.image, PyBool(TRUE))
                  IN  IF f.result \in Exceptions THEN f ELSE Return(f.image, "True")

rotate(img, right) ==
    IF Len(img) = 0 THEN Raise(img, "IndexError")
    ELSE IF Truthy(right)
         THEN LET f == flip(img, PyBool(TRUE))
              IN  IF f.result \in Exceptions THEN f
                  ELSE LET t == transpose(f.image)
                       IN  IF t.result \in Exceptions THEN t ELSE Return(t.image, "True")
         ELSE LET t == transpose(img)
              IN  IF t.result \in Exceptions THEN t
                  ELSE LET f == flip(t.image, PyBool(TRUE))
                       IN  IF f.result \in Exceptions THEN f ELSE Return(f.image, "True")

(* ------------------------------- vignette ------------------------------ *)

\* The vignette factor 1 - (distance / half_diagonal) ** 2 of the pixel at
\* (row, col) is the fraction num/den below.  With den <= 8 (images up to
\* 5 x 5) the double the code computes gives int(v * factor) equal to
\* (v * num) \div den for every channel value v in 0..255, so the fraction
\* stands for the double.
vignette_num(row, col, center_row, center_col) ==
    (center_row * center_row + center_col * center_col)
      - ((row - center_row) * (row - center_row) + (col - center_col) * (col - center_col))

vignette_pixel(pixel, num, den) ==
    IF pixel.alpha < 255
    THEN [pixel EXCEPT !.red = (pixel.red * num) \div den,
                       !.green = (pixel.green * num) \div den,
                       !.blue = (pixel.blue * num) \div den]
    ELSE pixel

\* vignette's loops from pixel number n on.
RECURSIVE vignette_loop(_, _, _, _)
vignette_loop(img, height, width, n) ==
    IF n = height * width THEN Return(img, "True")
    ELSE LET row == n \div width
             col == n % width
             center_row == height \div 2
             center_col == width \div 2
             den == center_row * center_row + center_col * center_col
         IN  IF den = 0 THEN Raise(img, "ZeroDivisionError")
             ELSE IF col >= RowLen(img, row) THEN Raise(img, "IndexError")
             ELSE With(SetAt(img, row, col,
                             vignette_pixel(At(img, row, col),
                                            vignette_num(row, col, center_row, center_col),
                                            den)),
                       LAMBDA next : vignette_loop(next, height, width, n + 1))

vignette(img) ==
    IF Len(img) = 0 THEN Raise(img, "IndexError")
    ELSE vignette_loop(img, Len(img), Len(img[1]), 0)

(* --------------------------------- blur -------------------------------- *)

\* The coordinate the code reads for offset off: max(0, min(x + off, size - 1)).
Clamp(x, size) == Max(0, Min(x, size - 1))

NoTotals == [red |-> 0, green |-> 0, blue |-> 0, alpha |-> 0, count |-> 0]

\* blur's loop over j for the pixel at (row, col) and the row offset i,
\* from the column offset j on: the totals and the count so far, with the
\* pixels the loop reads added.
RECURSIVE blur_row_totals(_, _, _, _, _, _, _, _, _)
blur_row_totals(img, row, col, radius, height, width, i, j, totals) ==
    IF j > radius THEN totals
    ELSE LET pixel == At(img, Clamp(row + i, height), Clamp(col + j, width))
         IN  With([red |-> totals.red + pixel.red, green |-> totals.green + pixel.green,
                   blue |-> totals.blue + pixel.blue, alpha |-> totals.alpha + pixel.alpha,
                   count |-> totals.count + 1],
                  LAMBDA t : blur_row_totals(img, row, col, radius, height, width, i, j + 1, t))

\* blur's loop over i for the pixel at (row, col), from the row offset i on.
RECURSIVE blur_totals(_, _, _, _, _, _, _, _)
blur_totals(img, row, col, radius, height, width, i, totals) ==
    IF i > radius THEN totals
    ELSE With(blur_row_totals(img, row, col, radius, height, width, i, 0 - radius, totals),
              LAMBDA t : blur_totals(img, row, col, radius, height, width, i + 1, t))

\* The pixel blur stores in the copy for (row, col).
blur_pixel(img, row, col, radius, height, width) ==
    LET Average(t) == RGB(t.red \div t.count, t.green \div t.count, t.blue \div t.count,
                          t.alpha \div t.count)
    IN  With(blur_totals(img, row, col, radius, height, width, 0 - radius, NoTotals), Average)

\* Some pixel the read loops reach lies beyond the end of its row.
blur_read_fails(img, radius, height, width) ==
    \E row \in 0..height - 1 : RowLen(img, row) < width

\* A blur that averages in the live image, pixel after pixel.
blur_nocopy(img, radius) ==
    LET RECURSIVE loop(_, _)
        loop(cur, n) ==
            IF n = Len(img) * Len(img[1]) THEN Return(cur, "True")
            ELSE With(SetAt(cur, n \div Len(img[1]), n % Len(img[1]),
                            blur_pixel(cur, n \div Len(img[1]), n % Len(img[1]), radius,
                                       Len(img), Len(img[1]))),
                      LAMBDA next : loop(next, n + 1))
    IN  IF Len(img) = 0 THEN Raise(img, "IndexError")
        ELSE IF Len(img[1]) = 0 THEN Return(img, "True")
        ELSE IF radius < 0 THEN Raise(img, "ZeroDivisionError")
        ELSE IF blur_read_fails(img, radius, Len(img), Len(img[1]))
        THEN Raise(img, "IndexError")
        ELSE loop(img, 0)

blur(img, radius) ==
    IF Len(img) = 0 THEN Raise(img, "IndexError")
    ELSE LET height == Len(img)
             width == Len(img[1])
         IN  IF width = 0 THEN Return(img, "True")
             ELSE IF radius < 0 THEN Raise(img, "ZeroDivisionError")
             ELSE IF blur_read_fails(img, radius, height, width)
             THEN Raise(img, "IndexError")
             ELSE Return([r \in 1..height |->
                             [c \in 1..Len(img[r]) |->
                                 IF c <= width
                                 THEN blur_pixel(img, r - 1, c - 1, radius, height, width)
                                 ELSE img[r][c]]],
                         "True")

(* ------------------------------ pixellate ------------------------------ *)

\* The read loops of one block whose corner is (row, col), from pixel
\* number k of the block on: the totals of the four channels and the count.
RECURSIVE block_totals(_, _, _, _, _, _)
block_totals(img, row, col, bh, bw, k) ==
    IF k >= bh * bw THEN NoTotals
    ELSE LET pixel == At(img, row + (k \div bw), col + (k % bw))
             Add(rest) ==
                 [red |-> pixel.red + rest.red, green |-> pixel.green + rest.green,
                  blue |-> pixel.blue + rest.blue, alpha |-> pixel.alpha + rest.alpha,
                  count |-> rest.count + 1]
         IN  With(block_totals(img, row, col, bh, bw, k + 1), Add)

\* The block with every pixel set to avg.
block_write(img, row, col, bh, bw, avg) ==
    [r \in 1..Len(img) |->
        [c \in 1..Len(img[r]) |->
            IF r - 1 >= row /\ r - 1 < row + bh /\ c - 1 >= col /\ c - 1 < col + bw
            THEN avg ELSE img[r][c]]]

\* One block divided by step * step, whatever its clipped size.
pixellate_block_unclipped(img, step, height, width, row, col) ==
    LET bh == Min(step, height - row)
        bw == Min(step, width - col)
        Write(t) ==
            With(RGB(t.red \div (step * step), t.green \div (step * step),
                     t.blue \div (step * step), t.alpha \div (step * step)),
                 LAMBDA avg : block_write(img, row, col, bh, bw, avg))
    IN  With(block_totals(img, row, col, bh, bw, 0), Write)

\* One iteration of pixellate's two outer loops: the block at (row, col) is
\* read, averaged and written.
pixellate_block(img, step, height, width, row, col) ==
    LET bh == Min(step, height - row)
        bw == Min(step, width - col)
        Write(t) ==
            With(RGB(t.red \div t.count, t.green \div t.count,
                     t.blue \div t.count, t.alpha \div t.count),
                 LAMBDA avg : block_write(img, row, col, bh, bw, avg))
    IN  With(block_totals(img, row, col, bh, bw, 0), Write)

\* pixellate's outer loops from the block at (row, col) on.
RECURSIVE pixellate_loop(_, _, _, _, _, _)
pixellate_loop(img, step, height, width, row, col) ==
    IF row >= height THEN Return(img, "True")
    ELSE IF col >= width THEN pixellate_loop(img, step, height, width, row + step, 0)
    ELSE IF \E i \in 0..Min(step, height - row) - 1 :
                RowLen(img, row + i) < col + Min(step, width - col)
         THEN Raise(img, "IndexError")
         ELSE With(pixellate_block(img, step, height, width, row, col),
                   LAMBDA next : pixellate_loop(next, step, height, width, row, col + step))

pixellate(img, step) ==
    IF Len(img) = 0 THEN Raise(img, "IndexError")
    ELSE IF step = 0 THEN Raise(img, "ValueError")
    ELSE IF step < 0 THEN Return(img, "True")
    ELSE pixellate_loop(img, step, Len(img), Len(img[1]), 0, 0)

(* ---------------------------- the state machine ------------------------ *)

\* image is the buffer; trail is the list of the calls made on it, each
\* with its argument, its outcome and the buffer it was given.

Palette == {RGB(200, 100, 50, 255), RGB(90, 2, 30, 100)}

Dims == {d \in (1..MaxH) \X (1..MaxW) : d[1] * d[2] <= MaxCells}

\* Every height x width buffer over the palette.
RectGrids == UNION {[1..d[1] -> [1..d[2] -> Palette]] : d \in Dims}

\* A buffer of two rows or more, and MaxRagged pixels or less, with one row
\* cut short.
RaggedGrids ==
    UNION {{[g EXCEPT ![k] = SubSeq(g[k], 1, l)] : k \in 1..Len(g), l \in 0..Len(g[1]) - 1} :
           g \in {x \in RectGrids : Len(x) >= 2 /\ Len(x) * Len(x[1]) <= MaxRagged}}

Grids == RectGrids \cup RaggedGrids \cup {<<>>}

\* The height x width buffer whose pixels all differ.
Numbered(height, width) ==
    [r \in 1..height |-> [c \in 1..width |-> RGB(40 * (r - 1), 2 + 3 * (c - 1), 0, 256 - r - c)]]

Flags == {PyBool(TRUE), PyBool(FALSE), PyInt(0), PyInt(1)}
Bools == {PyBool(TRUE), PyBool(FALSE)}
Radii == (0 - 1)..MaxRadius
Steps == (0 - 1)..MaxStep

Call(name, arg, out) ==
    /\ image' = out.image
    /\ trail' = Append(trail, [op |-> name, arg |-> arg, result |-> out.result,
                               before |-> image])

Display == Call("display", NoArg, display(image))
Dered == Call("dered", NoArg, dered(image))
Mono(sepia) == Call("mono", sepia, mono(image, sepia))
Flip(vertical) == Call("flip", vertical, flip(image, vertical))
Transpose == Call("transpose", NoArg, transpose(image))
Rotate(right) == Call("rotate", right, rotate(image, right))
Vignette == Call("vignette", NoArg, vignette(image))
Blur(radius) == Call("blur", PyInt(radius), blur(image, radius))
Pixellate(step) == Call("pixellate", PyInt(step), pixellate(image, step))

\* One call of any plug-in, with any argument, on any buffer.
Init == image \in Grids /\ trail = <<>>

Fresh == trail = <<>>

Next ==
    \/ Fresh /\ Display
    \/ Fresh /\ Dered
    \/ Fresh /\ \E sepia \in Flags : Mono(sepia)
    \/ Fresh /\ \E vertical \in Flags : Flip(vertical)
    \/ Fresh /\ Transpose
    \/ Fresh /\ \E right \in Flags : Rotate(right)
    \/ Fresh /\ Vignette
    \/ Fresh /\ \E radius \in Radii : Blur(radius)
    \/ Fresh /\ \E step \in Steps : Pixellate(step)

Spec == Init /\ [][Next]_vars

\* Up to MaxSeq successive calls of flip, transpose and rotate with bool
\* arguments on a rectangular buffer of distinct pixels.
InitGeom == image \in {Numbered(d[1], d[2]) : d \in Dims} /\ trail = <<>>

NextGeom ==
    \/ Len(trail) < MaxSeq /\ \E vertical \in Bools : Flip(vertical)
    \/ Len(trail) < MaxSeq /\ Transpose
    \/ Len(trail) < MaxSeq /\ \E right \in Bools : Rotate(right)

SpecGeom == InitGeom /\ [][NextGeom]_vars

\* Up to MaxMono successive calls of mono with a bool argument on a
\* rectangular buffer.
InitMono ==
    /\ image \in RectGrids \cup {Numbered(d[1], d[2]) : d \in Dims}
    /\ trail = <<>>

NextMono == Len(trail) < MaxMono /\ \E sepia \in Bools : Mono(sepia)

SpecMono == InitMono /\ [][NextMono]_vars

(* ------------------------- vocabulary of the claims -------------------- *)

Called == trail # <<>>
Last == trail[Len(trail)]
Raised(call) == call.result \in Exceptions

Height(g) == Len(g)
Width(g) == Len(g[1])
\* At least one row, at least one column, every row as long as the first.
IsRect(g) == Len(g) >= 1 /\ Len(g[1]) >= 1 /\ \A r \in 1..Len(g) : Len(g[r]) = Len(g[1])
\* Zero rows, or rows of unequal length.
BadDims(g) == Len(g) = 0 \/ \E r \in 1..Len(g) : Len(g[r]) # Len(g[1])
SameDims(g, h) == Len(g) = Len(h) /\ \A r \in 1..Len(g) : Len(g[r]) = Len(h[r])
Uniform(g) == \A r \in 1..Len(g) : \A c \in 1..Len(g[r]) : g[r][c] = g[1][1]
Cells(g) == {rc \in (0..Height(g) - 1) \X (0..Width(g) - 1) : TRUE}
Channels == {"red", "green", "blue", "alpha"}

\* The sum of f over the finite set S.
RECURSIVE SumOver(_, _)
SumOver(f, S) ==
    IF S = {} THEN 0
    ELSE LET x == CHOOSE y \in S : TRUE IN f[x] + SumOver(f, S \ {x})

\* The argument breaks the precondition its docstring states.
BadArgument(call) ==
    \/ call.op \in {"blur", "pixellate"} /\ call.arg.n <= 0
    \/ call.op \in {"mono", "flip", "rotate"} /\ ~call.arg.isbool

(* ------------------------------- the claims ---------------------------- *)

\* C1: every plug-in that returns, returns a boolean: True from the eight
\* functions that modify the image, and False from display, which leaves
\* the image as it was.
C1_ReturnsBoolean ==
    Called /\ IsRect(Last.before) /\ ~Raised(Last) =>
        /\ Last.result \in {"True", "False"}
        /\ Last.op = "display" => Last.result = "False" /\ image = Last.before
        /\ Last.op # "display" => Last.result = "True"

\* C2: a call whose argument breaks its precondition (radius <= 0, step <= 0,
\* a flag that is not a bool) never returns normally: it ends in an error
\* and the image is the one it was given.
C2_BadArgumentRejected ==
    Called /\ IsRect(Last.before) /\ BadArgument(Last) =>
        Raised(Last) /\ image = Last.before

\* C3: a call of a filter on a buffer with zero rows or with rows of unequal length
\* ends in an error and leaves every cell and every channel as it was.
C3_BadDimsRejected ==
    Called /\ Last.op # "display" /\ BadDims(Last.before) /\ ~BadArgument(Last) =>
        Raised(Last) /\ image = Last.before

\* C4: on a rectangular buffer flip returns True, keeps the dimensions and
\* puts at (r, c) the pixel the buffer held at (r, W-1-c), or at (H-1-r, c)
\* when vertical is true; a second flip with the same vertical restores the
\* buffer the first one was given, cell for cell.
C4_FlipInvolution ==
    Called /\ Last.op = "flip" /\ IsRect(Last.before) =>
        LET old == Last.before
            H == Height(old)
            W == Width(old)
        IN  /\ Last.result = "True"
            /\ SameDims(image, old)
            /\ \A rc \in Cells(old) :
                   At(image, rc[1], rc[2]) =
                       IF Truthy(Last.arg) THEN At(old, H - 1 - rc[1], rc[2])
                                           ELSE At(old, rc[1], W - 1 - rc[2])
            /\ Len(trail) >= 2 =>
                   LET first == trail[Len(trail) - 1]
                   IN  first.op = "flip" /\ first.arg = Last.arg /\ IsRect(first.before)
                           => image = first.before

\* Two flips with the same vertical have been made on a buffer of two rows
\* and two columns or more, and the first one changed it.
C4_Witness ==
    /\ Len(trail) = 2
    /\ trail[1].op = "flip" /\ trail[2].op = "flip" /\ trail[1].arg = trail[2].arg
    /\ Height(trail[1].before) >= 2 /\ Width(trail[1].before) >= 2
    /\ trail[2].before # trail[1].before
    /\ image = trail[1].before

\* C5: one rotate of a rectangular H x W buffer, in either direction, gives
\* a rectangular W x H buffer; four successive left rotations restore the
\* buffer and its dimensions; a right rotation undoes a left one and a left
\* rotation undoes a right one.
C5_RotateGroup ==
    Called /\ Last.op = "rotate" /\ IsRect(Last.before) =>
        LET n == Len(trail)
            AreRotations(k) ==
                \A i \in (n - k + 1)..n : trail[i].op = "rotate" /\ trail[i].result = "True"
        IN  /\ Last.result = "True"
            /\ IsRect(image)
            /\ Height(image) = Width(Last.before) /\ Width(image) = Height(Last.before)
            /\ n >= 4 /\ AreRotations(4) /\ (\A i \in (n - 3)..n : ~Truthy(trail[i].arg))
                   => image = trail[n - 3].before
            /\ n >= 2 /\ AreRotations(2) /\ Truthy(trail[n - 1].arg) # Truthy(Last.arg)
                   => image = trail[n - 1].before

\* Four left rotations have been made on a buffer that is not square, and
\* each of the first three left a buffer other than the original.
C5_Witness ==
    /\ Len(trail) = 4
    /\ \A i \in 1..4 : trail[i].op = "rotate" /\ ~Truthy(trail[i].arg)
    /\ Height(trail[1].before) # Width(trail[1].before)
    /\ Height(trail[1].before) >= 2 /\ Width(trail[1].before) >= 2
    /\ trail[2].before # trail[1].before /\ trail[3].before # trail[1].before
    /\ trail[4].before # trail[1].before
    /\ image = trail[1].before

\* C6: mono is idempotent for each value of sepia: a second mono with the
\* same sepia leaves the buffer the first one produced unchanged, and mono
\* never changes alpha.
C6_MonoIdempotent ==
    Called /\ Last.op = "mono" /\ Last.result = "True" =>
        /\ SameDims(image, Last.before)
        /\ \A r \in 1..Len(image) : \A c \in 1..Len(image[r]) :
               image[r][c].alpha = Last.before[r][c].alpha
        /\ Len(trail) >= 2 =>
               LET first == trail[Len(trail) - 1]
               IN  first.op = "mono" /\ first.arg = Last.arg /\ first.result = "True"
                       => image = Last.before

\* C7: on every rectangular buffer vignette returns True; the pixel at the
\* centre (H \div 2, W \div 2) keeps its red, green and blue, the four corner
\* pixels get red, green and blue 0 when their alpha is below 255, alpha is
\* never modified and a pixel with alpha 255 is left untouched.
C7_VignetteCentreAndCorners ==
    Called /\ Last.op = "vignette" /\ IsRect(Last.before) =>
        LET old == Last.before
            H == Height(old)
            W == Width(old)
            Corners == {0, H - 1} \X {0, W - 1}
        IN  /\ Last.result = "True"
            /\ SameDims(image, old)
            /\ At(image, H \div 2, W \div 2) = At(old, H \div 2, W \div 2)
            /\ \A rc \in Corners :
                   At(old, rc[1], rc[2]).alpha < 255 =>
                       /\ At(image, rc[1], rc[2]).red = 0
                       /\ At(image, rc[1], rc[2]).green = 0
                       /\ At(image, rc[1], rc[2]).blue = 0
            /\ \A rc \in Cells(old) :
                   /\ At(image, rc[1], rc[2]).alpha = At(old, rc[1], rc[2]).alpha
                   /\ At(old, rc[1], rc[2]).alpha = 255 =>
                          At(image, rc[1], rc[2]) = At(old, rc[1], rc[2])

\* The channel of the pixel that the box offset ij of (r, c) falls on, the
\* coordinates clamped to the buffer.
BoxSample(g, r, c, channel) ==
    [ij \in Int \X Int |->
        At(g, Max(0, Min(r + ij[1], Height(g) - 1)),
              Max(0, Min(c + ij[2], Width(g) - 1)))[channel]]

InBoundsBox(g, r, c, radius) ==
    {ij \in ((0 - radius)..radius) \X ((0 - radius)..radius) :
        /\ r + ij[1] >= 0 /\ r + ij[1] <= Height(g) - 1
        /\ c + ij[2] >= 0 /\ c + ij[2] <= Width(g) - 1}

\* C9: when the box of a pixel reaches beyond the buffer, blur averages only
\* the pixels of the box that lie inside the buffer, each counted once, and
\* divides by their number.
C9_BlurInBoundsAverage ==
    Called /\ Last.op = "blur" /\ Last.arg.n > 0 /\ IsRect(Last.before) =>
        LET old == Last.before
            radius == Last.arg.n
        IN  /\ Last.result = "True"
            /\ SameDims(image, old)
            /\ \A rc \in Cells(old) : \A channel \in Channels :
                   At(image, rc[1], rc[2])[channel] =
                       SumOver(BoxSample(old, rc[1], rc[2], channel),
                               InBoundsBox(old, rc[1], rc[2], radius))
                         \div Cardinality(InBoundsBox(old, rc[1], rc[2], radius))

\* The cells of the block of (r, c): the block's corner is at multiples of
\* step and the block is clipped to the buffer.
BlockOf(g, r, c, step) ==
    {rc \in Cells(g) : rc[1] \div step = r \div step /\ rc[2] \div step = c \div step}

\* C10: after pixellate with step > 0 on a rectangular buffer, all four
\* channels of every pixel are the truncated average of that channel over
\* exactly the pixels of its block in the buffer as it was before the call,
\* the divisor being the number of pixels of the clipped block; with step 1
\* the buffer is unchanged.
C10_PixellateBlocks ==
    Called /\ Last.op = "pixellate" /\ Last.arg.n > 0 /\ IsRect(Last.before) =>
        LET old == Last.before
            step == Last.arg.n
        IN  /\ Last.result = "True"
            /\ SameDims(image, old)
            /\ \A rc \in Cells(old) : \A channel \in Channels :
                   At(image, rc[1], rc[2])[channel] =
                       SumOver([xy \in Cells(old) |-> At(old, xy[1], xy[2])[channel]],
                               BlockOf(old, rc[1], rc[2], step))
                         \div Cardinality(BlockOf(old, rc[1], rc[2], step))
            /\ step = 1 => image = old

\* pixellate with step 3 has been made on a 2 x 4 buffer whose columns 0..2
\* hold more than one colour: they became one 2 x 3 block of one colour and
\* column 3 a 2 x 1 block of another.
C10_Witness ==
    /\ Called /\ Last.op = "pixellate" /\ Last.arg.n = 3 /\ Last.result = "True"
    /\ IsRect(Last.before) /\ Height(Last.before) = 2 /\ Width(Last.before) = 4
    /\ At(Last.before, 0, 0) # At(Last.before, 1, 2)
    /\ At(Last.before, 0, 3) # At(Last.before, 1, 3)
    /\ \A rc \in {0, 1} \X {0, 1, 2} : At(image, rc[1], rc[2]) = At(image, 0, 0)
    /\ At(image, 0, 3) = At(image, 1, 3)
    /\ At(image, 0, 3) # At(image, 0, 0)
    /\ image # Last.before

====
